---- MODULE Spec2Model ----
(***************************************************************************)
(* Model of script.py, a sequential URL status checker.                    *)
(*                                                                         *)
(* Strings that the program inspects (titles, page markup, driver          *)
(* messages, the phrase lists) are sequences of character codes, so that   *)
(* lower(), strip(), slicing and the substring test `x in s` are computed  *)
(* the way Python computes them.  URLs are opaque strings: the program     *)
(* never looks inside one.  The timestamp and the duration of a record are *)
(* wall-clock readings that no decision depends on; they are left out of   *)
(* the record.                                                             *)
(***************************************************************************)
EXTENDS Integers, Sequences, FiniteSets, TLC

\* Longest URL column the model reads from the input sheet.
MaxUrls == 2

(***************************************************************************)
(* Python string operations                                                *)
(***************************************************************************)

\* str.lower() on one ASCII character
LowerChar(c) == IF c >= 65 /\ c <= 90 THEN c + 32 ELSE c

\* str.lower()
Lower(s) == [k \in 1..Len(s) |-> LowerChar(s[k])]

\* the characters str.strip() removes: space, \t, \n, \v, \f, \r
IsSpace(c) == c \in {32, 9, 10, 11, 12, 13}

RECURSIVE LStrip(_)
LStrip(s) == IF s # <<>> /\ IsSpace(Head(s)) THEN LStrip(Tail(s)) ELSE s

RECURSIVE RStrip(_)
RStrip(s) ==
    IF s # <<>> /\ IsSpace(s[Len(s)]) THEN RStrip(SubSeq(s, 1, Len(s) - 1)) ELSE s

\* str.strip()
Strip(s) == RStrip(LStrip(s))

\* s[:n]
Take(s, n) == IF Len(s) <= n THEN s ELSE SubSeq(s, 1, n)

\* does `needle` start at position k of `hay`
RECURSIVE MatchAt(_, _, _, _)
MatchAt(needle, hay, k, j) ==
    IF j > Len(needle) THEN TRUE
    ELSE IF k + j - 1 > Len(hay) THEN FALSE
    ELSE IF hay[k + j - 1] # needle[j] THEN FALSE
    ELSE MatchAt(needle, hay, k, j + 1)

RECURSIVE ScanFrom(_, _, _)
ScanFrom(needle, hay, k) ==
    IF k + Len(needle) - 1 > Len(hay) THEN FALSE
    ELSE IF MatchAt(needle, hay, k, 1) THEN TRUE
    ELSE ScanFrom(needle, hay, k + 1)

\* needle in hay
In(needle, hay) == ScanFrom(needle, hay, 1)

(***************************************************************************)
(* Configuration                                                           *)
(***************************************************************************)

\* "checking your browser", "please stand by", "verify you are human",
\* "security check", "attention required", "cf-browser-verification",
\* "cloudflare"
CF_SIGNS == <<
    <<99,104,101,99,107,105,110,103,32,121,111,117,114,32,98,114,111,119,115,101,114>>,
    <<112,108,101,97,115,101,32,115,116,97,110,100,32,98,121>>,
    <<118,101,114,105,102,121,32,121,111,117,32,97,114,101,32,104,117,109,97,110>>,
    <<115,101,99,117,114,105,116,121,32,99,104,101,99,107>>,
    <<97,116,116,101,110,116,105,111,110,32,114,101,113,117,105,114,101,100>>,
    <<99,102,45,98,114,111,119,115,101,114,45,118,101,114,105,102,105,99,97,116,105,111,110>>,
    <<99,108,111,117,100,102,108,97,114,101>> >>

\* "404 Not Found", "Access to the website is blocked"
BAD_TITLES == <<
    <<52,48,52,32,78,111,116,32,70,111,117,110,100>>,
    <<65,99,99,101,115,115,32,116,111,32,116,104,101,32,119,101,98,115,105,116,101,32,105,115,32,98,108,111,99,107,101,100>> >>

\* Python's None, for an http status that was never obtained
None == -1

\* a NaN cell of the URL column
NaN == "NaN"

(***************************************************************************)
(* Titles, pages and messages the environment can produce                  *)
(***************************************************************************)

T_Empty == <<>>
\* "Example Domain"
T_Example == <<69,120,97,109,112,108,101,32,68,111,109,97,105,110>>
\* "  Example Domain "
T_ExamplePadded == <<32,32,69,120,97,109,112,108,101,32,68,111,109,97,105,110,32>>
\* "404 Not Found"
T_404 == <<52,48,52,32,78,111,116,32,70,111,117,110,100>>
\* " 404 Not Found\n"
T_404Padded == <<32,52,48,52,32,78,111,116,32,70,111,117,110,100,10>>
\* "ERROR 404 NOT FOUND"
T_404Upper == <<69,82,82,79,82,32,52,48,52,32,78,79,84,32,70,79,85,78,68>>
\* "404 Not Foun"
T_Near404 == <<52,48,52,32,78,111,116,32,70,111,117,110>>
\* "Checking your browser before accessing..."
T_Checking == <<67,104,101,99,107,105,110,103,32,121,111,117,114,32,98,114,111,119,115,101,114,32,98,101,102,111,114,101,32,97,99,99,101,115,115,105,110,103,46,46,46>>
\* "Attention Required! | Cloudflare"
T_Attention == <<65,116,116,101,110,116,105,111,110,32,82,101,113,117,105,114,101,100,33,32,124,32,67,108,111,117,100,102,108,97,114,101>>
\* "Access to the website is blocked"
T_Blocked == <<65,99,99,101,115,115,32,116,111,32,116,104,101,32,119,101,98,115,105,116,101,32,105,115,32,98,108,111,99,107,101,100>>
\* "Please Stand By"
T_Stand == <<80,108,101,97,115,101,32,83,116,97,110,100,32,66,121>>
\* "Verify you are human"
T_Verify == <<86,101,114,105,102,121,32,121,111,117,32,97,114,101,32,104,117,109,97,110>>
\* "Security Check"
T_Sec == <<83,101,99,117,114,105,116,121,32,67,104,101,99,107>>
\* "cf-browser-verification"
T_CfBv == <<99,102,45,98,114,111,119,115,101,114,45,118,101,114,105,102,105,99,97,116,105,111,110>>
\* "Just a moment..."
T_Moment == <<74,117,115,116,32,97,32,109,111,109,101,110,116,46,46,46>>
\* " "
T_Space == <<32>>

\* "No title found"
NoTitleFound == <<78,111,32,116,105,116,108,101,32,102,111,117,110,100>>
\* "Blocked by Cloudflare"
BlockedByCloudflare == <<66,108,111,99,107,101,100,32,98,121,32,67,108,111,117,100,102,108,97,114,101>>
\* "Selenium error: "
SeleniumErrorPrefix == <<83,101,108,101,110,105,117,109,32,101,114,114,111,114,58,32>>

\* str(e) of two driver errors: "Message: timeout", "Message: 404 Not Found"
MsgTimeout == <<77,101,115,115,97,103,101,58,32,116,105,109,101,111,117,116>>
Msg404 == <<77,101,115,115,97,103,101,58,32,52,48,52,32,78,111,116,32,70,111,117,110,100>>

\* rendered markup: "<p>Checking Your Browser</p>", "<p>hello</p>"
PageChallenge == <<60,112,62,67,104,101,99,107,105,110,103,32,89,111,117,114,32,66,114,111,119,115,101,114,60,47,112,62>>
PagePlain == <<60,112,62,104,101,108,108,111,60,47,112,62>>

(***************************************************************************)
(* The functions of script.py                                              *)
(***************************************************************************)

\* The input file as load_urls finds it: missing, unreadable (bad workbook,
\* no such sheet, no such column), or a column of cells.
InputFiles ==
    { [exists |-> FALSE, readable |-> FALSE, column |-> <<>>],
      [exists |-> TRUE, readable |-> FALSE, column |-> <<>>] }
    \cup { [exists |-> TRUE, readable |-> TRUE, column |-> c] :
             c \in UNION { [1..n -> {"u1", "u2", NaN}] : n \in 0..MaxUrls } }

\* Series.dropna(): the cells that are not NaN, in order
RECURSIVE dropna(_)
dropna(col) ==
    IF col = <<>> THEN <<>>
    ELSE IF Head(col) = NaN THEN dropna(Tail(col))
    ELSE <<Head(col)>> \o dropna(Tail(col))

load_urls(file) ==
    IF ~file.exists THEN <<>>
    ELSE IF file.readable THEN dropna(file.column)
    ELSE <<>>

\* What requests.get and the parser find for one URL: the request raises,
\* or it answers with a status code and a document with or without a
\* <title> element.
HttpWorlds ==
    { [raises |-> TRUE, status_code |-> None, hasTitle |-> FALSE, text |-> <<>>],
      [raises |-> FALSE, status_code |-> 200, hasTitle |-> TRUE, text |-> T_ExamplePadded],
      [raises |-> FALSE, status_code |-> 200, hasTitle |-> FALSE, text |-> <<>>],
      [raises |-> FALSE, status_code |-> 200, hasTitle |-> TRUE, text |-> T_404Padded],
      [raises |-> FALSE, status_code |-> 200, hasTitle |-> TRUE, text |-> T_Checking],
      [raises |-> FALSE, status_code |-> 404, hasTitle |-> TRUE, text |-> T_404],
      [raises |-> FALSE, status_code |-> 503, hasTitle |-> TRUE, text |-> T_Example] }

http_check(w) ==
    IF w.raises THEN [status |-> None, title |-> <<>>]
    ELSE [status |-> w.status_code,
          title |-> IF w.hasTitle THEN Strip(w.text) ELSE <<>>]

\* need_selenium with the status test written `> 400`
need_selenium_gt400(st, ttl) ==
    IF st = None \/ st > 400 THEN TRUE
    ELSE IF ttl = <<>> THEN TRUE
    ELSE IF \E x \in 1..Len(CF_SIGNS) : In(CF_SIGNS[x], Lower(ttl)) THEN TRUE
    ELSE FALSE

need_selenium(st, ttl) ==
    IF st = None \/ st >= 400 THEN TRUE
    ELSE IF ttl = <<>> THEN TRUE
    ELSE IF \E x \in 1..Len(CF_SIGNS) : In(CF_SIGNS[x], Lower(ttl)) THEN TRUE
    ELSE FALSE

\* is_bad_title with the signatures compared as written, not lowercased
is_bad_title_rawsig(ttl) ==
    IF ttl = <<>> THEN FALSE
    ELSE LET title_lower == Lower(ttl)
         IN  \E b \in 1..Len(BAD_TITLES) : In(BAD_TITLES[b], title_lower)

is_bad_title(ttl) ==
    IF ttl = <<>> THEN FALSE
    ELSE LET title_lower == Lower(ttl)
         IN  \E b \in 1..Len(BAD_TITLES) : In(Lower(BAD_TITLES[b]), title_lower)

\* What the browser does for one URL.
\*   nav:   driver.get returns ("ok"), raises a WebDriverException (page-load
\*          timeout included), or raises something else
\*   wait:  the title wait finds a non-blank title, times out because the
\*          title stayed blank, or the title read inside it raises
\*   titleRead/rawTitle: driver.title when it is read after the wait
\*   pageRead/page:      driver.page_source when it is read
NoBrowser ==
    [nav |-> "-", msg |-> <<>>, wait |-> "-", titleRead |-> "-",
     rawTitle |-> <<>>, pageRead |-> "-", page |-> <<>>]

BrowserWorlds ==
    { [NoBrowser EXCEPT !.nav = "WebDriverException", !.msg = m] :
        m \in {MsgTimeout, Msg404} }
    \cup { [NoBrowser EXCEPT !.nav = "OtherException"] }
    \cup { [NoBrowser EXCEPT !.nav = "ok", !.wait = "raises"] }
    \cup { [NoBrowser EXCEPT !.nav = "ok", !.wait = "timeout", !.page = p] :
             p \in {PageChallenge, PagePlain} }
    \cup { [NoBrowser EXCEPT !.nav = "ok", !.wait = "found", !.titleRead = "raises"] }
    \cup { [NoBrowser EXCEPT !.nav = "ok", !.wait = "found", !.titleRead = "ok",
                             !.rawTitle = t, !.pageRead = "raises"] :
             t \in {T_Example} }
    \cup { [NoBrowser EXCEPT !.nav = "ok", !.wait = "found", !.titleRead = "ok",
                             !.rawTitle = t, !.pageRead = "ok", !.page = p] :
             t \in {T_Empty, T_Space, T_ExamplePadded, T_404Upper},
             p \in {<<>>, PageChallenge, PagePlain} }

Returned(s, t) == [raised |-> FALSE, status |-> s, title |-> t]
Raised == [raised |-> TRUE, status |-> "-", title |-> <<>>]

selenium_check(b) ==
    IF b.nav = "WebDriverException"
        THEN Returned("Inactive", SeleniumErrorPrefix \o Take(b.msg, 200))
    ELSE IF b.nav # "ok" THEN Raised
    ELSE IF b.wait = "timeout" THEN Returned("Active", NoTitleFound)
    ELSE IF b.wait # "found" THEN Raised
    ELSE IF b.titleRead # "ok" THEN Raised
    ELSE IF b.pageRead # "ok" THEN Raised
    ELSE LET ttl == IF b.rawTitle # <<>> THEN Strip(b.rawTitle) ELSE <<>>
             page == IF b.page # <<>> THEN Lower(b.page) ELSE <<>>
         IN  IF (\E x \in 1..Len(CF_SIGNS) : In(CF_SIGNS[x], page)) /\ ttl = <<>>
             THEN Returned("Active", IF ttl # <<>> THEN ttl ELSE BlockedByCloudflare)
             ELSE Returned("Active", ttl)

\* the title check left out
ResolveStatus_keep(st, ttl) == st

\* lines 165-167 of main: the title check has the last word on the status
ResolveStatus(st, ttl) == IF is_bad_title(ttl) THEN "Inactive" ELSE st

\* the record with an error code of an Active URL reported as 200
MakeRecord_okCode(url, st, code, ttl) ==
    [URL |-> url, STATUS |-> st,
     HTTP_CODE |-> IF st = "Active" /\ (code = None \/ code >= 400) THEN 200 ELSE code,
     TITLE |-> ttl]

\* the dict main appends
MakeRecord(url, st, code, ttl) ==
    [URL |-> url, STATUS |-> st, HTTP_CODE |-> code, TITLE |-> ttl]

\* append that skips a URL already in the results
AppendResult_dedup(rs, rec) ==
    IF \E k \in 1..Len(rs) : rs[k].URL = rec.URL THEN rs ELSE Append(rs, rec)

\* results.append(...)
AppendResult(rs, rec) == Append(rs, rec)

(***************************************************************************)
(* State                                                                   *)
(***************************************************************************)
VARIABLES
    pc,         \* where main is: "start", "setup", "http", "classify",
                \* "sanitize", "save", "quit", "done", "crashed"
    urls,       \* main's urls
    i,          \* main's loop counter (enumerate(..., start=1))
    driver,     \* the browser session: "none", "open", "closed"
    results,    \* main's results
    http_code,  \* main's http_code
    title,      \* main's title
    status,     \* main's status
    output,     \* rows of the written output file
    written,    \* whether an output file was written
    loadError,  \* why load_urls gave up: "none", "missing", "unreadable"
    probed,     \* whether any probe ran
    httpRet,    \* what http_check returned for the URL being checked
    selCalls,   \* selenium_check calls for the URL being checked
    browser,    \* what the browser did for the URL being checked
    selRet,     \* what selenium_check returned for the URL being checked
    fnStatus,   \* classifier call: the status argument
    fnTitle,    \* classifier call: the title argument
    fnNeed,     \* classifier call: what need_selenium returned
    fnBad,      \* classifier call: what is_bad_title returned
    fnDone      \* classifier call: which of the two functions have returned

mainVars == <<pc, urls, i, driver, results, http_code, title, status, output,
              written, loadError, probed, httpRet, selCalls, browser, selRet>>

fnVars == <<fnStatus, fnTitle, fnNeed, fnBad, fnDone>>

vars == <<mainVars, fnVars>>

NoRet == [raised |-> FALSE, status |-> "-", title |-> <<>>]
NoHttp == [status |-> None, title |-> <<>>]

MainInit ==
    /\ pc = "start"
    /\ urls = <<>>
    /\ i = 0
    /\ driver = "none"
    /\ results = <<>>
    /\ http_code = None
    /\ title = <<>>
    /\ status = "-"
    /\ output = <<>>
    /\ written = FALSE
    /\ loadError = "none"
    /\ probed = FALSE
    /\ httpRet = NoHttp
    /\ selCalls = 0
    /\ browser = NoBrowser
    /\ selRet = NoRet

Init ==
    /\ MainInit
    /\ fnStatus = None
    /\ fnTitle = <<>>
    /\ fnNeed = FALSE
    /\ fnBad = FALSE
    /\ fnDone = {}

(***************************************************************************)
(* main                                                                    *)
(***************************************************************************)

\* main without the early return on an empty URL list
Main_Load_noReturn ==
    /\ pc = "start"
    /\ \E file \in InputFiles :
         /\ urls' = load_urls(file)
         /\ loadError' = IF ~file.exists THEN "missing"
                         ELSE IF ~file.readable THEN "unreadable" ELSE "none"
    /\ pc' = "setup"
    /\ UNCHANGED fnVars
    /\ UNCHANGED <<i, driver, results, http_code, title, status, output,
                   written, probed, httpRet, selCalls, browser, selRet>>

\* lines 142-146: load the URLs, leave when there are none
Main_Load ==
    /\ pc = "start"
    /\ \E file \in InputFiles :
         /\ urls' = load_urls(file)
         /\ loadError' = IF ~file.exists THEN "missing"
                         ELSE IF ~file.readable THEN "unreadable" ELSE "none"
         /\ pc' = IF load_urls(file) = <<>> THEN "done" ELSE "setup"
    /\ UNCHANGED fnVars
    /\ UNCHANGED <<i, driver, results, http_code, title, status, output,
                   written, probed, httpRet, selCalls, browser, selRet>>

\* lines 148-150: the browser starts
Main_SetupDriver ==
    /\ pc = "setup"
    /\ driver' = "open"
    /\ results' = <<>>
    /\ i' = 1
    /\ pc' = IF urls = <<>> THEN "save" ELSE "http"
    /\ UNCHANGED fnVars
    /\ UNCHANGED <<urls, http_code, title, status, output, written, loadError,
                   probed, httpRet, selCalls, browser, selRet>>

\* line 148: webdriver.Firefox raises, nothing catches it
Main_SetupDriverRaises ==
    /\ pc = "setup"
    /\ pc' = "crashed"
    /\ UNCHANGED fnVars
    /\ UNCHANGED <<urls, i, driver, results, http_code, title, status, output,
                   written, loadError, probed, httpRet, selCalls, browser, selRet>>

\* line 158
Main_HttpCheck ==
    /\ pc = "http"
    /\ i <= Len(urls)
    /\ \E w \in HttpWorlds :
         /\ http_code' = http_check(w).status
         /\ title' = http_check(w).title
         /\ httpRet' = http_check(w)
    /\ probed' = TRUE
    /\ selCalls' = 0
    /\ browser' = NoBrowser
    /\ selRet' = NoRet
    /\ pc' = "classify"
    /\ UNCHANGED fnVars
    /\ UNCHANGED <<urls, i, driver, results, status, output, written, loadError>>

\* main taking only the status from selenium_check, keeping its own title
Main_Escalate_keepTitle ==
    /\ pc = "classify"
    /\ need_selenium(http_code, title)
    /\ \E b \in BrowserWorlds :
         /\ ~selenium_check(b).raised
         /\ status' = selenium_check(b).status
         /\ selRet' = selenium_check(b)
         /\ browser' = b
    /\ selCalls' = selCalls + 1
    /\ pc' = "sanitize"
    /\ UNCHANGED fnVars
    /\ UNCHANGED <<urls, i, driver, results, http_code, title, output, written,
                   loadError, probed, httpRet>>

\* lines 160-161, selenium_check returns
Main_Escalate ==
    /\ pc = "classify"
    /\ need_selenium(http_code, title)
    /\ \E b \in BrowserWorlds :
         /\ ~selenium_check(b).raised
         /\ status' = selenium_check(b).status
         /\ title' = selenium_check(b).title
         /\ selRet' = selenium_check(b)
         /\ browser' = b
    /\ selCalls' = selCalls + 1
    /\ pc' = "sanitize"
    /\ UNCHANGED fnVars
    /\ UNCHANGED <<urls, i, driver, results, http_code, output, written,
                   loadError, probed, httpRet>>

\* lines 160-161, selenium_check raises and nothing in main catches it
Main_EscalateRaises ==
    /\ pc = "classify"
    /\ need_selenium(http_code, title)
    /\ \E b \in BrowserWorlds :
         /\ selenium_check(b).raised
         /\ selRet' = selenium_check(b)
         /\ browser' = b
    /\ selCalls' = selCalls + 1
    /\ pc' = "crashed"
    /\ UNCHANGED fnVars
    /\ UNCHANGED <<urls, i, driver, results, http_code, title, status, output,
                   written, loadError, probed, httpRet>>

\* lines 162-163
Main_Trust ==
    /\ pc = "classify"
    /\ ~need_selenium(http_code, title)
    /\ status' = "Active"
    /\ pc' = "sanitize"
    /\ UNCHANGED fnVars
    /\ UNCHANGED <<urls, i, driver, results, http_code, title, output, written,
                   loadError, probed, httpRet, selCalls, browser, selRet>>

\* lines 165-180, and the loop moves to the next URL or ends
Main_Record ==
    /\ pc = "sanitize"
    /\ status' = ResolveStatus(status, title)
    /\ results' = AppendResult(results,
                     MakeRecord(urls[i], ResolveStatus(status, title), http_code, title))
    /\ i' = i + 1
    /\ pc' = IF i < Len(urls) THEN "http" ELSE "save"
    /\ UNCHANGED fnVars
    /\ UNCHANGED <<urls, driver, http_code, title, output, written, loadError,
                   probed, httpRet, selCalls, browser, selRet>>

\* line 182: save_results writes the file unless there is nothing to write
Main_Save ==
    /\ pc = "save"
    /\ IF results = <<>>
          THEN UNCHANGED <<output, written>>
          ELSE output' = results /\ written' = TRUE
    /\ pc' = "quit"
    /\ UNCHANGED fnVars
    /\ UNCHANGED <<urls, i, driver, results, http_code, title, status,
                   loadError, probed, httpRet, selCalls, browser, selRet>>

\* line 182: to_excel raises, nothing catches it
Main_SaveRaises ==
    /\ pc = "save"
    /\ results # <<>>
    /\ pc' = "crashed"
    /\ UNCHANGED fnVars
    /\ UNCHANGED <<urls, i, driver, results, http_code, title, status, output,
                   written, loadError, probed, httpRet, selCalls, browser, selRet>>

\* lines 183-184
Main_Quit ==
    /\ pc = "quit"
    /\ driver' = "closed"
    /\ pc' = "done"
    /\ UNCHANGED fnVars
    /\ UNCHANGED <<urls, i, results, http_code, title, status, output, written,
                   loadError, probed, httpRet, selCalls, browser, selRet>>

Next ==
    \/ Main_Load
    \/ Main_SetupDriver
    \/ Main_SetupDriverRaises
    \/ Main_HttpCheck
    \/ Main_Escalate
    \/ Main_EscalateRaises
    \/ Main_Trust
    \/ Main_Record
    \/ Main_Save
    \/ Main_SaveRaises
    \/ Main_Quit

Spec == Init /\ [][Next]_vars

TypeOK ==
    /\ pc \in {"start", "setup", "http", "classify", "sanitize", "save",
               "quit", "done", "crashed"}
    /\ driver \in {"none", "open", "closed"}
    /\ Len(urls) <= MaxUrls
    /\ Len(results) <= Len(urls)

(***************************************************************************)
(* The two classifiers on their own: one call of each, on arguments drawn  *)
(* from the statuses and titles below.                                     *)
(***************************************************************************)

FnStatuses == {None, 200, 204, 301, 399, 400, 404, 500}

FnTitles ==
    {T_Empty, T_Example, T_ExamplePadded, T_404, T_404Padded, T_404Upper,
     T_Near404, T_Checking, T_Attention, T_Blocked, T_Stand, T_Verify, T_Sec,
     T_CfBv, T_Moment, T_Space, NoTitleFound, BlockedByCloudflare,
     SeleniumErrorPrefix \o Msg404}

InitFn ==
    /\ MainInit
    /\ fnStatus \in FnStatuses
    /\ fnTitle \in FnTitles
    /\ fnNeed = FALSE
    /\ fnBad = FALSE
    /\ fnDone = {}

Fn_NeedSelenium ==
    /\ "need_selenium" \notin fnDone
    /\ fnNeed' = need_selenium(fnStatus, fnTitle)
    /\ fnDone' = fnDone \cup {"need_selenium"}
    /\ UNCHANGED <<fnStatus, fnTitle, fnBad>>
    /\ UNCHANGED mainVars

Fn_IsBadTitle ==
    /\ "is_bad_title" \notin fnDone
    /\ fnBad' = is_bad_title(fnTitle)
    /\ fnDone' = fnDone \cup {"is_bad_title"}
    /\ UNCHANGED <<fnStatus, fnTitle, fnNeed>>
    /\ UNCHANGED mainVars

NextFn ==
    \/ Fn_NeedSelenium
    \/ Fn_IsBadTitle

SpecFn == InitFn /\ [][NextFn]_vars

(***************************************************************************)
(* Properties                                                              *)
(***************************************************************************)

\* h contains n as a contiguous run of characters
HasSubstring(h, n) ==
    \E k \in 1..(Len(h) - Len(n) + 1) : SubSeq(h, k, k + Len(n) - 1) = n

\* the record appended last
LastResult == results[Len(results)]

\* a record has just been appended, and httpRet, selCalls, browser and selRet
\* still describe the URL it belongs to
JustRecorded == results # <<>> /\ pc \in {"http", "save", "quit", "done"}

\* the title main holds when the probing of the URL is over
ResolvedTitle == IF selCalls > 0 THEN selRet.title ELSE httpRet.title

\* the browser was run for the URL and driver.get raised a driver error
NavigationError == selCalls > 0 /\ browser.nav = "WebDriverException"

\* C1: a record's status is Inactive exactly when the browser was run for
\* its URL and reported a navigation error, or its resolved title is a bad
\* title; otherwise it is Active.
C1_InactiveIffNavErrorOrBadTitle ==
    JustRecorded =>
        /\ LastResult.STATUS \in {"Active", "Inactive"}
        /\ LastResult.TITLE = ResolvedTitle
        /\ LastResult.STATUS = "Inactive"
             <=> (NavigationError \/ is_bad_title(ResolvedTitle))

\* C1 witness: the browser loaded the page and returned Active, and the
\* title it read forced the record to Inactive
C1_Witness ==
    /\ JustRecorded
    /\ selCalls = 1
    /\ browser.nav = "ok"
    /\ selRet.status = "Active"
    /\ LastResult.STATUS = "Inactive"

\* C2: what save_results receives, and what it writes, has one record per
\* loaded URL, the k-th record carrying the k-th URL.
C2_OneRecordPerUrlInOrder ==
    (pc \in {"save", "quit"} \/ written) =>
        /\ Len(results) = Len(urls)
        /\ \A k \in 1..Len(urls) : results[k].URL = urls[k]
        /\ written => output = results

\* C2 witness: a written run whose input holds the same URL twice
C2_Witness ==
    /\ written
    /\ Len(urls) = 2
    /\ urls[1] = urls[2]
    /\ output[1].URL = output[2].URL

\* C3: once URLs are being checked, the run never ends with a URL that has
\* no record, whatever a probe raised.
C3_NoUrlFailureAbortsBatch ==
    (probed /\ pc \in {"done", "crashed"}) => Len(results) = Len(urls)

\* C4: selenium_check is called once when need_selenium holds of what
\* http_check returned and not at all otherwise; before the title check the
\* status and title are the browser's in the first case, and Active with
\* the lightweight title in the second.
C4_BrowserRunsExactlyWhenNeeded ==
    /\ pc = "sanitize" =>
         IF need_selenium(httpRet.status, httpRet.title)
         THEN selCalls = 1 /\ status = selRet.status /\ title = selRet.title
         ELSE selCalls = 0 /\ status = "Active" /\ title = httpRet.title
    /\ JustRecorded =>
         IF need_selenium(httpRet.status, httpRet.title)
         THEN selCalls = 1 /\ LastResult.TITLE = selRet.title
         ELSE selCalls = 0 /\ LastResult.TITLE = httpRet.title

\* C4 witness: an escalated URL whose lightweight title differs from the
\* title the browser returned, just before the title check
C4_Witness ==
    /\ pc = "sanitize"
    /\ selCalls = 1
    /\ httpRet.title # <<>>
    /\ title = selRet.title
    /\ title # httpRet.title

\* C5: no run ends with the browser session still open.
C5_SessionClosedOnEveryExit ==
    pc \in {"done", "crashed"} => driver # "open"

\* C6: need_selenium is true exactly when the status is absent, or is 400 or
\* more, or the title is empty, or the lowercased title contains one of the
\* bot-challenge phrases; the four worked cases come out as stated.
C6_NeedSeleniumTable ==
    "need_selenium" \in fnDone =>
        /\ fnNeed <=>
             \/ fnStatus = None
             \/ fnStatus >= 400
             \/ fnTitle = <<>>
             \/ \E x \in 1..Len(CF_SIGNS) : HasSubstring(Lower(fnTitle), CF_SIGNS[x])
        /\ (fnStatus = None /\ fnTitle = T_Empty) => fnNeed
        /\ (fnStatus = 200 /\ fnTitle = T_Example) => ~fnNeed
        /\ (fnStatus = 200 /\ fnTitle = T_Empty) => fnNeed
        /\ (fnStatus = 200 /\ fnTitle = T_Checking) => fnNeed

\* C6 witness: a successful status with a mixed-case challenge title
C6_Witness ==
    /\ "need_selenium" \in fnDone
    /\ fnStatus = 200
    /\ fnTitle = T_Attention
    /\ fnNeed

\* C7: is_bad_title is false for an empty title, and for any other title it
\* is true exactly when the lowercased title contains the lowercased form of
\* a dead-page signature; the three worked cases come out as stated.
C7_IsBadTitleTable ==
    "is_bad_title" \in fnDone =>
        /\ fnTitle = <<>> => ~fnBad
        /\ fnTitle # <<>> =>
             (fnBad <=> \E b \in 1..Len(BAD_TITLES) :
                           HasSubstring(Lower(fnTitle), Lower(BAD_TITLES[b])))
        /\ fnTitle = T_404 => fnBad
        /\ fnTitle = T_Example => ~fnBad

\* C7 witness: a signature found in another letter case inside a longer title
C7_Witness ==
    /\ "is_bad_title" \in fnDone
    /\ fnTitle = T_404Upper
    /\ fnBad

\* C8: when load_urls gives up on a setup error, the run is over: no browser
\* session, no probe, no output file, no crash.
C8_SetupErrorEndsQuietly ==
    loadError # "none" =>
        /\ pc = "done"
        /\ urls = <<>>
        /\ driver = "none"
        /\ ~probed
        /\ ~written
        /\ results = <<>>

\* C8 witness: the run is over after an unreadable input file
C8_Witness ==
    /\ loadError = "unreadable"
    /\ pc = "done"

\* the markup the browser holds contains a bot-challenge phrase
PageHasChallenge == \E x \in 1..Len(CF_SIGNS) : HasSubstring(Lower(browser.page), CF_SIGNS[x])

\* the page title is blank: it stayed blank through the wait, or it is blank
\* when read after the wait
PageTitleEmpty ==
    \/ browser.wait = "timeout"
    \/ browser.wait = "found" /\ browser.titleRead = "ok" /\ Strip(browser.rawTitle) = <<>>

\* C9: whenever the browser loaded the page, the markup contains a
\* bot-challenge phrase and the page title is empty, selenium_check returns
\* (Active, "Blocked by Cloudflare") and the record is Active with that title.
C9_ChallengeWithEmptyTitle ==
    (selCalls = 1 /\ ~selRet.raised /\ pc # "classify"
       /\ browser.nav = "ok" /\ PageHasChallenge /\ PageTitleEmpty) =>
        /\ selRet.status = "Active"
        /\ selRet.title = BlockedByCloudflare
        /\ JustRecorded =>
             LastResult.STATUS = "Active" /\ LastResult.TITLE = BlockedByCloudflare

\* C10: a record's http code is what http_check returned for its URL, and
\* nothing between http_check and the record changes it.
C10_HttpCodeIsLightweightStatus ==
    /\ pc \in {"classify", "sanitize"} => http_code = httpRet.status
    /\ JustRecorded => LastResult.HTTP_CODE = httpRet.status

\* C10 witness: an Active record whose http code is absent or an error code
C10_Witness ==
    /\ JustRecorded
    /\ LastResult.STATUS = "Active"
    /\ httpRet.status = 503
    /\ LastResult.HTTP_CODE = 503
====
